---- MODULE Spec2Model ----
(***************************************************************************)
(* The MSAL.js error taxonomy (AuthError.ts): the class chain              *)
(*   AuthError <- ClientAuthError <- ConfigurationAuthError                *)
(*   AuthError <- ServerError <- InteractionRequiredAuthError              *)
(*                            <- ClaimsRequiredAuthError                   *)
(* and the static factory methods that build its instances.                *)
(*                                                                         *)
(* A JavaScript string is a sequence of tokens: a literal of the source is *)
(* one token, "+" is \o and "" is << >>.  An error object is a record of   *)
(* its own properties plus proto, the class whose prototype the last       *)
(* Object.setPrototypeOf of the constructor chain installed.  The stack    *)
(* property (a host-dependent trace text) is left out.                     *)
(*                                                                         *)
(* The module keeps no state of its own.  The state is the error objects   *)
(* its callers hold: a bag, since two objects with equal properties are    *)
(* still two objects.                                                      *)
(***************************************************************************)
EXTENDS Integers, Sequences, FiniteSets, Bags, TLC

VARIABLES heap

vars == <<heap>>

\* ------------------------------------------------------------------ bounds

\* How many error objects are alive at once.
MaxErrors == 2

\* ------------------------------------------------------------ input values

\* The value of a property that was never assigned.
Undefined == "undefined"

\* The universal fields of a request, <<tokenType, userState>>.
Requests == {<<"id_token", "state-123">>, <<"access_token", "s1">>}

\* Scenario details: the empty string, two one-token strings.
Details == {<< >>, <<"n1">>, <<"n2">>}

\* Messages given to a constructor called directly.
Messages == {<<"m1">>}

\* Claims challenges, opaque to the taxonomy.
ClaimsPayloads == {"{\"access_token\":{\"acrs\":{\"essential\":true}}}", ""}

InteractionTypes == {"popup", "redirect"}

\* Callback argument counts passed as numArgs (one of them has two digits).
NumArgs == {0, 3, 12}

\* ------------------------------------------------------------ collaborators

\* Constants.cacheLocationLocal, Constants.cacheLocationSession
cacheLocationLocal == <<"localStorage">>

cacheLocationSession == <<"sessionStorage">>

\* Utils.isEmpty(str)
isEmpty(str) == Len(str) = 0

\* ----------------------------------------------------------------- strings

Digits == <<"0", "1", "2", "3", "4", "5", "6", "7", "8", "9">>

\* The decimal text JavaScript's "+" gives a non-negative integer.
RECURSIVE NumberToString(_)
NumberToString(n) ==
    IF n < 10 THEN <<Digits[n + 1]>>
    ELSE NumberToString(n \div 10) \o <<Digits[(n % 10) + 1]>>

\* t occurs in s at position p.
OccursAt(s, t, p) ==
    /\ p >= 1
    /\ p + Len(t) - 1 <= Len(s)
    /\ \A k \in 1..Len(t) : s[p + k - 1] = t[k]

\* t is a substring of s.
Contains(s, t) == \E p \in 1..(Len(s) + 1) : OccursAt(s, t, p)

\* -------------------------------------------------------------- class chain

Classes ==
    {"AuthError", "ClientAuthError", "ConfigurationAuthError", "ServerError",
     "InteractionRequiredAuthError", "ClaimsRequiredAuthError"}

\* The "extends" clause of each class.
Extends(c) ==
    CASE c = "AuthError" -> "Error"
      [] c = "ClientAuthError" -> "AuthError"
      [] c = "ConfigurationAuthError" -> "ClientAuthError"
      [] c = "ServerError" -> "AuthError"
      [] c = "InteractionRequiredAuthError" -> "ServerError"
      [] c = "ClaimsRequiredAuthError" -> "InteractionRequiredAuthError"

\* The classes whose prototype is on the prototype chain of c.prototype.
RECURSIVE PrototypeChain(_)
PrototypeChain(c) ==
    IF c = "Error" THEN {"Error"} ELSE {c} \cup PrototypeChain(Extends(c))

\* e instanceof c
InstanceOf(e, c) == c \in PrototypeChain(e.proto)

\* ------------------------------------------------------------ constructors

AuthError_SwapFields(message, tokenRequestType, userState) ==
    [proto |-> "AuthError", name |-> "AuthError", message |-> message,
     tokenRequestType |-> userState, userState |-> tokenRequestType,
     interactionType |-> Undefined, claimsRequired |-> Undefined]

AuthError(message, tokenRequestType, userState) ==
    [proto |-> "AuthError", name |-> "AuthError", message |-> message,
     tokenRequestType |-> tokenRequestType, userState |-> userState,
     interactionType |-> Undefined, claimsRequired |-> Undefined]

ClientAuthError(message, tokenRequestType, userState) ==
    [AuthError(message, tokenRequestType, userState) EXCEPT
        !.name = "ClientAuthError", !.proto = "ClientAuthError"]

ConfigurationAuthError_NoName(message, tokenType, userState) ==
    [ClientAuthError(message, tokenType, userState) EXCEPT
        !.proto = "ConfigurationAuthError"]

ConfigurationAuthError(message, tokenType, userState) ==
    [ClientAuthError(message, tokenType, userState) EXCEPT
        !.name = "ConfigurationAuthError", !.proto = "ConfigurationAuthError"]

ServerError(message, tokenType, userState) ==
    [AuthError(message, tokenType, userState) EXCEPT
        !.name = "ServerError", !.proto = "ServerError"]

InteractionRequiredAuthError(message, tokenType, userState) ==
    [ServerError(message, tokenType, userState) EXCEPT
        !.name = "InteractionRequiredAuthError",
        !.proto = "InteractionRequiredAuthError"]

ClaimsRequiredAuthError_NoSetPrototypeOf(message, tokenType, userState, claimsRequired) ==
    [InteractionRequiredAuthError(message, tokenType, userState) EXCEPT
        !.name = "ClaimsRequiredAuthError", !.claimsRequired = claimsRequired]

ClaimsRequiredAuthError_NoClaims(message, tokenType, userState, claimsRequired) ==
    [InteractionRequiredAuthError(message, tokenType, userState) EXCEPT
        !.name = "ClaimsRequiredAuthError", !.proto = "ClaimsRequiredAuthError"]

ClaimsRequiredAuthError(message, tokenType, userState, claimsRequired) ==
    [InteractionRequiredAuthError(message, tokenType, userState) EXCEPT
        !.name = "ClaimsRequiredAuthError", !.claimsRequired = claimsRequired,
        !.proto = "ClaimsRequiredAuthError"]

\* new c(message, tokenType, userState[, claimsRequired])
New(c, message, tokenType, userState, claimsRequired) ==
    CASE c = "AuthError" -> AuthError(message, tokenType, userState)
      [] c = "ClientAuthError" -> ClientAuthError(message, tokenType, userState)
      [] c = "ConfigurationAuthError" ->
            ConfigurationAuthError(message, tokenType, userState)
      [] c = "ServerError" -> ServerError(message, tokenType, userState)
      [] c = "InteractionRequiredAuthError" ->
            InteractionRequiredAuthError(message, tokenType, userState)
      [] c = "ClaimsRequiredAuthError" ->
            ClaimsRequiredAuthError(message, tokenType, userState, claimsRequired)

setInteractionType_TouchesState(e, interactionType) ==
    [e EXCEPT !.interactionType = interactionType, !.userState = interactionType]

\* InteractionRequiredAuthError.prototype.setInteractionType, on the object e
setInteractionType(e, interactionType) ==
    [e EXCEPT !.interactionType = interactionType]

\* ------------------------------------------------- ClientAuthError factories

createEndpointResolutionError(errDesc, tokenType, userState) ==
    LET errorMessage0 ==
            <<"Error in Could not resolve endpoints. Please check network and try again.">>
        errorMessage ==
            IF ~isEmpty(errDesc)
            THEN errorMessage0 \o <<" Details: ">> \o errDesc
            ELSE errorMessage0
    IN  ClientAuthError(errDesc, tokenType, userState)

createMultipleMatchingTokensInCacheError(scope, tokenType, userState) ==
    ClientAuthError(
        <<"Cache error for scope ">> \o scope \o
        <<": The cache contains multiple tokens satisfying the requirements. Call AcquireToken again providing more requirements like authority.">>,
        tokenType, userState)

createMultipleAuthoritiesInCacheError(scope, tokenType, userState) ==
    ClientAuthError(
        <<"Cache error for scope ">> \o scope \o
        <<": Multiple authorities found in the cache. Pass authority in the API overload.">>,
        tokenType, userState)

createPopupWindowError(tokenType, userState) ==
    ClientAuthError(
        <<"Error opening popup window. This can happen if you are using IE or if popups are blocked in the browser.">>,
        tokenType, userState)

createTokenRenewalTimeoutError(tokenType, userState) ==
    ClientAuthError(<<"Token renewal operation failed due to timeout.">>,
                    tokenType, userState)

createInvalidStateError(invalidState, actualState, tokenType, userState) ==
    ClientAuthError(
        <<"Invalid state: ">> \o invalidState \o <<", should be state: ">> \o actualState,
        tokenType, userState)

createNonceMismatchError_Swapped(invalidNonce, actualNonce, tokenType, userState) ==
    ClientAuthError(
        <<"Invalid nonce: ">> \o actualNonce \o <<", should be nonce: ">> \o invalidNonce,
        tokenType, userState)

createNonceMismatchError(invalidNonce, actualNonce, tokenType, userState) ==
    ClientAuthError(
        <<"Invalid nonce: ">> \o invalidNonce \o <<", should be nonce: ">> \o actualNonce,
        tokenType, userState)

createLoginInProgressError(tokenType, userState) ==
    ClientAuthError(
        <<"Login_In_Progress: Error during login call - login is already in progress.">>,
        tokenType, userState)

createAcquireTokenInProgressError(tokenType, userState) ==
    ClientAuthError(
        <<"AcquireToken_In_Progress: Error during login call - login is already in progress.">>,
        tokenType, userState)

createUserCancelledError(tokenType, userState) ==
    ClientAuthError(<<"User_Cancelled: User cancelled ">>, tokenType, userState)

\* ------------------------------------------ ConfigurationAuthError factories

createInvalidCacheLocationConfigError_NoSession(givenCacheLocation, tokenType, userState) ==
    ConfigurationAuthError(
        <<"Cache Location is not valid. Provided value:">> \o givenCacheLocation \o
        <<". Possible values are: ">> \o cacheLocationLocal \o <<", ">> \o
        cacheLocationLocal,
        tokenType, userState)

createInvalidCacheLocationConfigError(givenCacheLocation, tokenType, userState) ==
    ConfigurationAuthError(
        <<"Cache Location is not valid. Provided value:">> \o givenCacheLocation \o
        <<". Possible values are: ">> \o cacheLocationLocal \o <<", ">> \o
        cacheLocationSession,
        tokenType, userState)

createNoCallbackGivenError(tokenType, userState) ==
    ConfigurationAuthError(
        <<"Error in configuration: no callback(s) registered for login/acquireTokenRedirect flows. Plesae call handleRedirectCallbacks() with the appropriate callback signatures. More information is available here: https://github.com/AzureAD/microsoft-authentication-library-for-js/wiki/-basics">>,
        tokenType, userState)

createCallbackParametersError(numArgs, tokenType, userState) ==
    ConfigurationAuthError(
        <<"Error occurred in callback - incorrect number of arguments, expected 2, got ">>
        \o NumberToString(numArgs) \o <<".">>,
        tokenType, userState)

createSuccessCallbackParametersError(numArgs, tokenType, userState) ==
    ConfigurationAuthError(
        <<"Error occurred in callback for successful token response - incorrect number of arguments, expected 1, got ">>
        \o NumberToString(numArgs) \o <<".">>,
        tokenType, userState)

createErrorCallbackParametersError(numArgs, tokenType, userState) ==
    ConfigurationAuthError(
        <<"Error occurred in callback for error response - incorrect number of arguments, expected 1, got ">>
        \o NumberToString(numArgs) \o <<".">>,
        tokenType, userState)

createEmptyScopesArrayError(scopesValue, tokenType, userState) ==
    ConfigurationAuthError(
        <<"Scopes cannot be passed as empty array. Given value: ">> \o scopesValue,
        tokenType, userState)

createScopesNonArrayError(scopesValue, tokenType, userState) ==
    ConfigurationAuthError(
        <<"Scopes cannot be passed as non-array. Given value: ">> \o scopesValue,
        tokenType, userState)

createClientIdSingleScopeError(scopesValue, tokenType, userState) ==
    ConfigurationAuthError(
        <<"Client ID can only be provided as a single scope. Given value: ">> \o scopesValue,
        tokenType, userState)

\* ----------------------------------------------------- ServerError factories

createServerUnavailableError(tokenType, userState) ==
    ServerError(<<"Server is temporarily unavailable.">>, tokenType, userState)

createUnknownServerError(errorDesc, tokenType, userState) ==
    ServerError(<< >>, tokenType, userState)

\* ------------------------------------ InteractionRequiredAuthError factories

createLoginRequiredAuthError(tokenType, userState) ==
    InteractionRequiredAuthError(<<"login_required: User must login.">>,
                                 tokenType, userState)

createInteractionRequiredAuthError(errorDesc, tokenType, userState) ==
    InteractionRequiredAuthError(<<"interaction_required: ">> \o errorDesc,
                                 tokenType, userState)

createConsentRequiredAuthError(errorDesc, tokenType, userState) ==
    InteractionRequiredAuthError(<<"consent_required: ">> \o errorDesc,
                                 tokenType, userState)

\* --------------------------------------------------- the factories, as a table

\* The class each factory is a static method of.
DeclaringClass(op) ==
    CASE op \in {"createEndpointResolutionError",
                 "createMultipleMatchingTokensInCacheError",
                 "createMultipleAuthoritiesInCacheError",
                 "createPopupWindowError", "createTokenRenewalTimeoutError",
                 "createInvalidStateError", "createNonceMismatchError",
                 "createLoginInProgressError",
                 "createAcquireTokenInProgressError",
                 "createUserCancelledError"} -> "ClientAuthError"
      [] op \in {"createInvalidCacheLocationConfigError",
                 "createNoCallbackGivenError", "createCallbackParametersError",
                 "createSuccessCallbackParametersError",
                 "createErrorCallbackParametersError",
                 "createEmptyScopesArrayError", "createScopesNonArrayError",
                 "createClientIdSingleScopeError"} -> "ConfigurationAuthError"
      [] op \in {"createServerUnavailableError", "createUnknownServerError"} ->
            "ServerError"
      [] op \in {"createLoginRequiredAuthError",
                 "createInteractionRequiredAuthError",
                 "createConsentRequiredAuthError"} ->
            "InteractionRequiredAuthError"

\* Every error a factory returns, over the input values.
FactoryOutputs ==
    UNION {
        {createPopupWindowError(r[1], r[2]),
         createTokenRenewalTimeoutError(r[1], r[2]),
         createLoginInProgressError(r[1], r[2]),
         createAcquireTokenInProgressError(r[1], r[2]),
         createUserCancelledError(r[1], r[2]),
         createNoCallbackGivenError(r[1], r[2]),
         createServerUnavailableError(r[1], r[2]),
         createLoginRequiredAuthError(r[1], r[2])}
        \cup UNION {
            {createEndpointResolutionError(d, r[1], r[2]),
             createMultipleMatchingTokensInCacheError(d, r[1], r[2]),
             createMultipleAuthoritiesInCacheError(d, r[1], r[2]),
             createInvalidCacheLocationConfigError(d, r[1], r[2]),
             createEmptyScopesArrayError(d, r[1], r[2]),
             createScopesNonArrayError(d, r[1], r[2]),
             createClientIdSingleScopeError(d, r[1], r[2]),
             createUnknownServerError(d, r[1], r[2]),
             createInteractionRequiredAuthError(d, r[1], r[2]),
             createConsentRequiredAuthError(d, r[1], r[2])}
            \cup {createInvalidStateError(d, d2, r[1], r[2]) : d2 \in Details}
            \cup {createNonceMismatchError(d, d2, r[1], r[2]) : d2 \in Details}
            : d \in Details}
        \cup UNION {
            {createCallbackParametersError(n, r[1], r[2]),
             createSuccessCallbackParametersError(n, r[1], r[2]),
             createErrorCallbackParametersError(n, r[1], r[2])}
            : n \in NumArgs}
        : r \in Requests}

\* The classes some factory returns an instance of.
FactoryVariants == {e.proto : e \in FactoryOutputs}

\* ------------------------------------------------------------------- state
\* heap: the bag of cells, one per error object alive:
\*   err      the object
\*   call     the call that constructed it (history)
\*   lastSet  the argument of the most recent setInteractionType call on it,
\*            Undefined before the first (history)

\* The record of a factory call.
FactoryCall(op, strs, nums, tokenType, userState) ==
    [op |-> op, cls |-> Undefined, strs |-> strs, nums |-> nums,
     tokenType |-> tokenType, userState |-> userState, claims |-> Undefined]

\* The record of a constructor called directly.
NewCall(c, message, tokenType, userState, claimsRequired) ==
    [op |-> "new", cls |-> c, strs |-> <<message>>, nums |-> << >>,
     tokenType |-> tokenType, userState |-> userState,
     claims |-> IF c = "ClaimsRequiredAuthError" THEN claimsRequired ELSE Undefined]

\* The bag of one cell.
One(x) == SetToBag({x})

\* The cells alive.
Cells == BagToSet(heap)

Init == heap = EmptyBag

\* There is room for one more error object.
Room == BagCardinality(heap) < MaxErrors

\* A caller keeps the error a call returned.
Keep(e, call) ==
    heap' = heap (+) One([err |-> e, call |-> call, lastSet |-> Undefined])

Call_createEndpointResolutionError ==
    /\ Room
    /\ \E d \in Details, r \in Requests :
        Keep(createEndpointResolutionError(d, r[1], r[2]),
             FactoryCall("createEndpointResolutionError", <<d>>, << >>, r[1], r[2]))

Call_createMultipleMatchingTokensInCacheError ==
    /\ Room
    /\ \E d \in Details, r \in Requests :
        Keep(createMultipleMatchingTokensInCacheError(d, r[1], r[2]),
             FactoryCall("createMultipleMatchingTokensInCacheError", <<d>>, << >>, r[1], r[2]))

Call_createMultipleAuthoritiesInCacheError ==
    /\ Room
    /\ \E d \in Details, r \in Requests :
        Keep(createMultipleAuthoritiesInCacheError(d, r[1], r[2]),
             FactoryCall("createMultipleAuthoritiesInCacheError", <<d>>, << >>, r[1], r[2]))

Call_createPopupWindowError ==
    /\ Room
    /\ \E r \in Requests :
        Keep(createPopupWindowError(r[1], r[2]),
             FactoryCall("createPopupWindowError", << >>, << >>, r[1], r[2]))

Call_createTokenRenewalTimeoutError ==
    /\ Room
    /\ \E r \in Requests :
        Keep(createTokenRenewalTimeoutError(r[1], r[2]),
             FactoryCall("createTokenRenewalTimeoutError", << >>, << >>, r[1], r[2]))

Call_createInvalidStateError ==
    /\ Room
    /\ \E d1 \in Details, d2 \in Details, r \in Requests :
        Keep(createInvalidStateError(d1, d2, r[1], r[2]),
             FactoryCall("createInvalidStateError", <<d1, d2>>, << >>, r[1], r[2]))

Call_createNonceMismatchError ==
    /\ Room
    /\ \E d1 \in Details, d2 \in Details, r \in Requests :
        Keep(createNonceMismatchError(d1, d2, r[1], r[2]),
             FactoryCall("createNonceMismatchError", <<d1, d2>>, << >>, r[1], r[2]))

Call_createLoginInProgressError ==
    /\ Room
    /\ \E r \in Requests :
        Keep(createLoginInProgressError(r[1], r[2]),
             FactoryCall("createLoginInProgressError", << >>, << >>, r[1], r[2]))

Call_createAcquireTokenInProgressError ==
    /\ Room
    /\ \E r \in Requests :
        Keep(createAcquireTokenInProgressError(r[1], r[2]),
             FactoryCall("createAcquireTokenInProgressError", << >>, << >>, r[1], r[2]))

Call_createUserCancelledError ==
    /\ Room
    /\ \E r \in Requests :
        Keep(createUserCancelledError(r[1], r[2]),
             FactoryCall("createUserCancelledError", << >>, << >>, r[1], r[2]))

Call_createInvalidCacheLocationConfigError ==
    /\ Room
    /\ \E d \in Details, r \in Requests :
        Keep(createInvalidCacheLocationConfigError(d, r[1], r[2]),
             FactoryCall("createInvalidCacheLocationConfigError", <<d>>, << >>, r[1], r[2]))

Call_createNoCallbackGivenError ==
    /\ Room
    /\ \E r \in Requests :
        Keep(createNoCallbackGivenError(r[1], r[2]),
             FactoryCall("createNoCallbackGivenError", << >>, << >>, r[1], r[2]))

Call_createCallbackParametersError ==
    /\ Room
    /\ \E n \in NumArgs, r \in Requests :
        Keep(createCallbackParametersError(n, r[1], r[2]),
             FactoryCall("createCallbackParametersError", << >>, <<n>>, r[1], r[2]))

Call_createSuccessCallbackParametersError ==
    /\ Room
    /\ \E n \in NumArgs, r \in Requests :
        Keep(createSuccessCallbackParametersError(n, r[1], r[2]),
             FactoryCall("createSuccessCallbackParametersError", << >>, <<n>>, r[1], r[2]))

Call_createErrorCallbackParametersError ==
    /\ Room
    /\ \E n \in NumArgs, r \in Requests :
        Keep(createErrorCallbackParametersError(n, r[1], r[2]),
             FactoryCall("createErrorCallbackParametersError", << >>, <<n>>, r[1], r[2]))

Call_createEmptyScopesArrayError ==
    /\ Room
    /\ \E d \in Details, r \in Requests :
        Keep(createEmptyScopesArrayError(d, r[1], r[2]),
             FactoryCall("createEmptyScopesArrayError", <<d>>, << >>, r[1], r[2]))

Call_createScopesNonArrayError ==
    /\ Room
    /\ \E d \in Details, r \in Requests :
        Keep(createScopesNonArrayError(d, r[1], r[2]),
             FactoryCall("createScopesNonArrayError", <<d>>, << >>, r[1], r[2]))

Call_createClientIdSingleScopeError ==
    /\ Room
    /\ \E d \in Details, r \in Requests :
        Keep(createClientIdSingleScopeError(d, r[1], r[2]),
             FactoryCall("createClientIdSingleScopeError", <<d>>, << >>, r[1], r[2]))

Call_createServerUnavailableError ==
    /\ Room
    /\ \E r \in Requests :
        Keep(createServerUnavailableError(r[1], r[2]),
             FactoryCall("createServerUnavailableError", << >>, << >>, r[1], r[2]))

Call_createUnknownServerError ==
    /\ Room
    /\ \E d \in Details, r \in Requests :
        Keep(createUnknownServerError(d, r[1], r[2]),
             FactoryCall("createUnknownServerError", <<d>>, << >>, r[1], r[2]))

Call_createLoginRequiredAuthError ==
    /\ Room
    /\ \E r \in Requests :
        Keep(createLoginRequiredAuthError(r[1], r[2]),
             FactoryCall("createLoginRequiredAuthError", << >>, << >>, r[1], r[2]))

Call_createInteractionRequiredAuthError ==
    /\ Room
    /\ \E d \in Details, r \in Requests :
        Keep(createInteractionRequiredAuthError(d, r[1], r[2]),
             FactoryCall("createInteractionRequiredAuthError", <<d>>, << >>, r[1], r[2]))

Call_createConsentRequiredAuthError ==
    /\ Room
    /\ \E d \in Details, r \in Requests :
        Keep(createConsentRequiredAuthError(d, r[1], r[2]),
             FactoryCall("createConsentRequiredAuthError", <<d>>, << >>, r[1], r[2]))

\* new AuthError(...), ..., new ClaimsRequiredAuthError(...): the constructors
\* are public, and ClaimsRequiredAuthError has no factory.
Call_new ==
    /\ Room
    /\ \E c \in Classes, m \in Messages, r \in Requests, cr \in ClaimsPayloads :
        Keep(New(c, m, r[1], r[2], cr), NewCall(c, m, r[1], r[2], cr))

\* x.err.setInteractionType(v): only an InteractionRequiredAuthError has
\* the method.
Call_setInteractionType ==
    \E x \in Cells, v \in InteractionTypes :
        /\ InstanceOf(x.err, "InteractionRequiredAuthError")
        /\ heap' = (heap (-) One(x)) (+)
                    One([x EXCEPT !.err = setInteractionType(x.err, v),
                                  !.lastSet = v])

Next ==
    \/ Call_createEndpointResolutionError
    \/ Call_createMultipleMatchingTokensInCacheError
    \/ Call_createMultipleAuthoritiesInCacheError
    \/ Call_createPopupWindowError
    \/ Call_createTokenRenewalTimeoutError
    \/ Call_createInvalidStateError
    \/ Call_createNonceMismatchError
    \/ Call_createLoginInProgressError
    \/ Call_createAcquireTokenInProgressError
    \/ Call_createUserCancelledError
    \/ Call_createInvalidCacheLocationConfigError
    \/ Call_createNoCallbackGivenError
    \/ Call_createCallbackParametersError
    \/ Call_createSuccessCallbackParametersError
    \/ Call_createErrorCallbackParametersError
    \/ Call_createEmptyScopesArrayError
    \/ Call_createScopesNonArrayError
    \/ Call_createClientIdSingleScopeError
    \/ Call_createServerUnavailableError
    \/ Call_createUnknownServerError
    \/ Call_createLoginRequiredAuthError
    \/ Call_createInteractionRequiredAuthError
    \/ Call_createConsentRequiredAuthError
    \/ Call_new
    \/ Call_setInteractionType

Spec == Init /\ [][Next]_vars

\* ------------------------------------------------------ the top-level module

\* The names index.ts re-exports from "./AuthError".
AuthErrorExports ==
    {"AuthError", "ClientAuthError", "ConfigurationAuthError",
     "InteractionRequiredAuthError", "ServerError"}

\* The other names index.ts exports; none of them is an error class.
OtherExports ==
    {"UserAgentApplication", "Logger", "LogLevel", "Account", "Constants",
     "TokenResponse", "Authority", "CacheResult", "TConfiguration",
     "Configuration", "AuthResponse"}

\* Everything a caller can import from the top-level module.
IndexExports == AuthErrorExports \cup OtherExports

\* The error types among them: the classes AuthError.ts declares.
ErrorExports == IndexExports \cap (Classes \cup AuthErrorExports)

\* ------------------------------------------------------------------ claims

FromFactory(x) == x.call.op # "new"

FromNew(x, c) == x.call.op = "new" /\ x.call.cls = c

\* The ancestors the taxonomy documents for each variant.
DocumentedAncestors(c) ==
    CASE c = "AuthError" -> {}
      [] c = "ClientAuthError" -> {"AuthError"}
      [] c = "ConfigurationAuthError" -> {"ClientAuthError", "AuthError"}
      [] c = "ServerError" -> {"AuthError"}
      [] c = "InteractionRequiredAuthError" -> {"ServerError", "AuthError"}
      [] c = "ClaimsRequiredAuthError" ->
            {"InteractionRequiredAuthError", "ServerError", "AuthError"}

\* The variant documented for the call that built the error of cell x.
DocumentedVariant(x) ==
    IF FromFactory(x) THEN DeclaringClass(x.call.op) ELSE x.call.cls

\* C1: the error every factory returns, and a ClaimsRequiredAuthError built
\* with new, has the name of its most specific variant and is an instance of
\* that variant and of every ancestor of it; so whatever is an
\* InteractionRequiredAuthError or a ClaimsRequiredAuthError is caught as a
\* ServerError.
C1_NameAndAncestors ==
    \A x \in Cells :
        /\ (FromFactory(x) \/ FromNew(x, "ClaimsRequiredAuthError")) =>
              /\ x.err.name = DocumentedVariant(x)
              /\ \A a \in {DocumentedVariant(x)} \cup DocumentedAncestors(DocumentedVariant(x)) :
                    InstanceOf(x.err, a)
        /\ (x.err.name \in {"InteractionRequiredAuthError", "ClaimsRequiredAuthError"}) =>
              InstanceOf(x.err, "ServerError")

\* A ClaimsRequiredAuthError and a factory-made ConfigurationAuthError and
\* InteractionRequiredAuthError have been built.
C1_Witness ==
    /\ \E x \in Cells :
          FromNew(x, "ClaimsRequiredAuthError") /\ InstanceOf(x.err, "ServerError")
    /\ \E x \in Cells :
          FromFactory(x) /\ x.err.name \in {"ConfigurationAuthError", "InteractionRequiredAuthError"}

\* C2: the error a factory returns carries the tokenType it was passed as
\* tokenRequestType and the userState it was passed as userState, whatever
\* the detail arguments.
C2_UniversalFieldsRoundTrip ==
    \A x \in Cells :
        FromFactory(x) =>
            /\ x.err.tokenRequestType = x.call.tokenType
            /\ x.err.userState = x.call.userState

\* Two factories were called with different universal fields, one of them
\* with two details.
C2_Witness ==
    \E x, y \in Cells :
        /\ x.call.op = "createNonceMismatchError"
        /\ x.call.strs = << <<"n1">>, <<"n2">> >>
        /\ x.err.tokenRequestType = "id_token"
        /\ x.err.userState = "state-123"
        /\ FromFactory(y)
        /\ y.err.tokenRequestType = "access_token"
        /\ y.err.userState = "s1"

\* The properties fixed at construction.
SameFixedFields(e, f) ==
    /\ e.message = f.message
    /\ e.name = f.name
    /\ e.proto = f.proto
    /\ e.tokenRequestType = f.tokenRequestType
    /\ e.userState = f.userState
    /\ e.claimsRequired = f.claimsRequired

\* C3, one step.  Either an error was constructed and every existing cell
\* is kept as it was; or one error x became y and every other cell is kept
\* as it was: then x is an InteractionRequiredAuthError, y has the message,
\* name, tokenRequestType, userState and claimsRequired of x, and differs from
\* x only in interactionType, which is the value setInteractionType was passed.
C3_Step ==
    \/ /\ BagCardinality(heap') = BagCardinality(heap) + 1
       /\ heap \sqsubseteq heap'
    \/ /\ BagCardinality(heap') = BagCardinality(heap)
       /\ \E x \in Cells, y \in BagToSet(heap') :
             /\ heap' (-) One(y) = heap (-) One(x)
             /\ y.call = x.call
             /\ SameFixedFields(x.err, y.err)
             /\ InstanceOf(x.err, "InteractionRequiredAuthError")
             /\ y.err = [x.err EXCEPT !.interactionType = y.lastSet]

\* C3, every state: interactionType reads as the argument of the most recent
\* setInteractionType call on the error, and as undefined before the first.
C3_ReadBack ==
    \A x \in Cells : x.err.interactionType = x.lastSet

\* C3: after any sequence of factory, constructor and setInteractionType
\* calls every error keeps the message, name, tokenRequestType, userState and
\* claimsRequired it was constructed with; setInteractionType changes only
\* the interactionType of the instance it is called on, a later read returns
\* the most recent value, and constructing an error changes no existing one.
C3_Frame == [][C3_Step]_vars /\ []C3_ReadBack

\* setInteractionType has been called on one of two errors, and the other is
\* an InteractionRequiredAuthError too, on which it never was.
C3_Witness ==
    \E x, y \in Cells :
        /\ x.err.interactionType = "redirect"
        /\ InstanceOf(y.err, "InteractionRequiredAuthError")
        /\ y.err.interactionType = Undefined

\* C4: a ClaimsRequiredAuthError carries exactly the claims payload its
\* constructor was passed, and is an instance of ClaimsRequiredAuthError (the
\* narrowing check succeeds) as well as of InteractionRequiredAuthError,
\* ServerError and AuthError, also after it was handled as an
\* InteractionRequiredAuthError (setInteractionType).
C4_ClaimsPayloadKept ==
    \A x \in Cells :
        FromNew(x, "ClaimsRequiredAuthError") =>
            /\ x.err.claimsRequired = x.call.claims
            /\ \A a \in {"ClaimsRequiredAuthError", "InteractionRequiredAuthError",
                         "ServerError", "AuthError"} : InstanceOf(x.err, a)

\* A ClaimsRequiredAuthError built with the JSON payload, whose
\* interactionType was set afterwards.
C4_Witness ==
    \E x \in Cells :
        /\ FromNew(x, "ClaimsRequiredAuthError")
        /\ x.call.claims = "{\"access_token\":{\"acrs\":{\"essential\":true}}}"
        /\ x.err.claimsRequired = x.call.claims
        /\ x.err.interactionType = "popup"

\* C5: the message of the error a factory returns contains every detail
\* argument of the call verbatim (a numArgs as its decimal text).
C5_DetailInMessage ==
    \A x \in Cells :
        FromFactory(x) =>
            /\ \A k \in DOMAIN x.call.strs :
                  Contains(x.err.message, x.call.strs[k])
            /\ \A k \in DOMAIN x.call.nums :
                  Contains(x.err.message, NumberToString(x.call.nums[k]))

\* C6: the errors two different factories return have different messages.
C6_DistinctMessages ==
    \A x, y \in Cells :
        (FromFactory(x) /\ FromFactory(y) /\ x.call.op # y.call.op) =>
            x.err.message # y.err.message

\* C7: the name of every constructed error is not empty, is the name of the
\* error's most specific variant and of none of that variant's ancestors, and
\* two errors have the same name exactly when they are of the same variant.
C7_NamesUnique ==
    /\ \A x \in Cells :
          /\ x.err.name # ""
          /\ x.err.name = x.err.proto
          /\ x.err.name \notin PrototypeChain(Extends(x.err.proto))
    /\ \A x, y \in Cells :
          (x.err.name = y.err.name) <=> (x.err.proto = y.err.proto)

\* Two errors, one of a variant that is an ancestor of the other's.
C7_Witness ==
    \E x, y \in Cells :
        /\ x.err.proto = "ConfigurationAuthError"
        /\ y.err.proto = "ClientAuthError"
        /\ x.err.name # y.err.name

\* C8: every error of a variant below the root is of a variant that some
\* factory returns: no variant is built by its constructor alone.
C8_EveryVariantHasFactory ==
    \A x \in Cells :
        x.err.proto # "AuthError" => x.err.proto \in FactoryVariants

\* a occurs in s, and b occurs in s after that occurrence of a.
OccursInOrder(s, a, b) ==
    \E p, q \in 1..(Len(s) + 1) :
        OccursAt(s, a, p) /\ OccursAt(s, b, q) /\ p + Len(a) <= q

\* C9: in the message of createNonceMismatchError and createInvalidStateError
\* the given (invalid) value comes first and the expected value second; for
\* two different non-empty values the expected one never comes first.
C9_GivenThenExpected ==
    \A x \in Cells :
        x.call.op \in {"createNonceMismatchError", "createInvalidStateError"} =>
            LET given == x.call.strs[1]
                expected == x.call.strs[2]
            IN  /\ OccursInOrder(x.err.message, given, expected)
                /\ (given # expected /\ given # << >> /\ expected # << >>) =>
                      ~OccursInOrder(x.err.message, expected, given)

\* createNonceMismatchError("n1", "n2", ...) and
\* createInvalidStateError("n2", "n1", ...) have been called.
C9_Witness ==
    \E x, y \in Cells :
        /\ x.call.op = "createNonceMismatchError"
        /\ x.call.strs = << <<"n1">>, <<"n2">> >>
        /\ y.call.op = "createInvalidStateError"
        /\ y.call.strs = << <<"n2">>, <<"n1">> >>

\* C10: the error createInvalidCacheLocationConfigError returns is a
\* ConfigurationAuthError and a ClientAuthError, and its message contains the
\* given cache location and both valid ones.
C10_InvalidCacheLocation ==
    \A x \in Cells :
        x.call.op = "createInvalidCacheLocationConfigError" =>
            /\ InstanceOf(x.err, "ConfigurationAuthError")
            /\ InstanceOf(x.err, "ClientAuthError")
            /\ Contains(x.err.message, x.call.strs[1])
            /\ Contains(x.err.message, cacheLocationLocal)
            /\ Contains(x.err.message, cacheLocationSession)

\* createInvalidCacheLocationConfigError was called with a non-empty and
\* with the empty cache location.
C10_Witness ==
    \E x, y \in Cells :
        /\ x.call.op = "createInvalidCacheLocationConfigError"
        /\ x.call.strs = << <<"n1">> >>
        /\ y.call.op = "createInvalidCacheLocationConfigError"
        /\ y.call.strs = << << >> >>

\* C11: the error types the top-level module exports are exactly the six
\* classes of the taxonomy: the class of every error a caller holds is
\* exported, and no error type outside the taxonomy is.
C11_ExportsAreTheTaxonomy ==
    /\ \A x \in Cells : x.err.proto \in ErrorExports
    /\ ErrorExports \subseteq Classes

\* The fixed text of createEndpointResolutionError.
EndpointResolutionText ==
    <<"Error in Could not resolve endpoints. Please check network and try again.">>

\* C12: the message of the error createEndpointResolutionError returns is the
\* fixed text, followed by " Details: " and errDesc exactly when errDesc is not
\* empty; it is never empty.
C12_EndpointResolutionMessage ==
    \A x \in Cells :
        x.call.op = "createEndpointResolutionError" =>
            LET errDesc == x.call.strs[1]
            IN  /\ x.err.message =
                      IF errDesc # << >>
                      THEN EndpointResolutionText \o <<" Details: ">> \o errDesc
                      ELSE EndpointResolutionText
                /\ x.err.message # << >>

====
